---- MODULE Spec2Model ----
(***************************************************************************)
(* Event loop of the terminal music-player front end (src/ui/mod.rs):      *)
(* App::run renders a frame, receives one UI request from the input        *)
(* producer, dispatches it, and repeats.  Rendering (App::get_ui) sends a  *)
(* playback request to the player on every frame.                          *)
(***************************************************************************)
EXTENDS Integers, Sequences, FiniteSets, TLC

(* ---- bounds of the model ---- *)
MaxItems == 2
MaxRequests == 3
MaxRecvErrs == 2
MaxLockRequests == 3

(* ---- values ---- *)
\* Option<T>: None is the empty sequence, Some(x) a one-element sequence.
None == <<>>
Some(x) == <<x>>
unwrap_ok(o) == o /= None

\* library::Song records the loop can be started with (title, path).
AllSongs ==
  << [title |-> "A", path |-> "/a.mp3"],
     [title |-> "B", path |-> "/b.mp3"],
     [title |-> "C", path |-> "/c.mp3"],
     [title |-> "D", path |-> "/d.mp3"] >>

\* The song vectors start() may be given: the first n songs, n = 0..MaxItems.
Catalogs == { SubSeq(AllSongs, 1, n) : n \in 0..MaxItems }

\* Characters a SearchInput request may carry.
Chars == {"h", "i"}

\* UIRequests: the variants matched in App::run, and one the match does not name.
Req(k, c) == [kind |-> k, ch |-> c]
Up == Req("Up", "")
Down == Req("Down", "")
Enter == Req("Enter", "")
ShowSearch == Req("ShowSearch", "")
SearchInput(c) == Req("SearchInput", c)
GoBack == Req("GoBack", "")
Quit == Req("Quit", "")
Other == Req("Other", "")
UIRequests ==
  {Up, Down, Enter, ShowSearch, GoBack, Quit, Other} \cup { SearchInput(c) : c \in Chars }

\* PlayerRequests sent by get_ui.
Start(p) == [kind |-> "Start", path |-> p]
Stop == [kind |-> "Stop", path |-> ""]

VARIABLES
  state,           \* AppState behind Arc<Mutex<..>>: searching, search_term, curr_song
  song_list,       \* StatefulList<Song>: items, selected (Option<usize>)
  tmp_show_popup,  \* App.tmp_show_popup
  rx,              \* requests in the UI request channel, oldest first
  tx_alive,        \* the input producer still holds its Sender
  player_tx,       \* PlayerRequests sent on player_tx so far, oldest first
  pc,              \* position of App::run
  sent,            \* every request the producer enqueued, in order
  applied,         \* every request App::run received, in order
  recv_errs,       \* number of Err results of rx.recv() so far
  returns,         \* number of times App::run returned
  lock             \* who holds the Mutex of AppState: "free", "loop" or "other"

vars == <<state, song_list, tmp_show_popup, rx, tx_alive, player_tx, pc,
          sent, applied, recv_errs, returns, lock>>

\* Everything the loop thread owns or writes.
loop_vars == <<state, song_list, tmp_show_popup, player_tx, pc, applied,
               recv_errs, returns>>

(* ---- StatefulList ---- *)
with_items(items) == [items |-> items, selected |-> None]

next(sl) ==
  IF Len(sl.items) = 0 THEN sl
  ELSE IF sl.selected = None THEN [sl EXCEPT !.selected = Some(0)]
  ELSE IF sl.selected[1] >= Len(sl.items) - 1 THEN [sl EXCEPT !.selected = Some(0)]
  ELSE [sl EXCEPT !.selected = Some(sl.selected[1] + 1)]

previous(sl) ==
  IF Len(sl.items) = 0 THEN sl
  ELSE IF sl.selected = None THEN [sl EXCEPT !.selected = Some(Len(sl.items) - 1)]
  ELSE IF sl.selected[1] = 0 THEN [sl EXCEPT !.selected = Some(Len(sl.items) - 1)]
  ELSE [sl EXCEPT !.selected = Some(sl.selected[1] - 1)]

\* Vec::get: None when the index is out of range (indices are 0-based).
get(items, i) == IF i >= 0 /\ i < Len(items) THEN Some(items[i + 1]) ELSE None

(* ---- App ---- *)
\* on_up that stops at the first element instead of wrapping.
on_up_clamped(sl) ==
  IF sl.selected /= None /\ sl.selected[1] = 0 THEN sl ELSE previous(sl)

on_up(sl) == previous(sl)

\* on_down that stops at the last element instead of wrapping.
on_down_clamped(sl) ==
  IF sl.selected /= None /\ sl.selected[1] >= Len(sl.items) - 1 THEN sl ELSE next(sl)

on_down(sl) == next(sl)

\* on_enter that shows the popup instead of toggling it.
on_enter_shows(popup) == TRUE

on_enter(popup) == ~popup

\* A ShowSearch arm that also forgets the current song.
show_search_clears_song(st) == [st EXCEPT !.searching = TRUE, !.curr_song = None]

show_search(st) == [st EXCEPT !.searching = TRUE]

search_input(st, c) == [st EXCEPT !.search_term = Append(@, c)]

\* go_back without its test of searching.
go_back_unconditional(st) == [st EXCEPT !.searching = FALSE, !.search_term = <<>>]

go_back(st) ==
  IF st.searching
  THEN [st EXCEPT !.searching = FALSE, !.search_term = <<>>]
  ELSE st

\* App::run that starts with previous() and so selects the last element.
run_startup_previous(sl) == previous(sl)

\* App::run without the call that selects the first element.
run_startup_skipped(sl) == sl

\* The call that precedes the loop in App::run.
run_startup(sl) == next(sl)

\* The match on the received request: the App fields after the arm has run.
dispatch(app, request) ==
  CASE request.kind = "Up" -> [app EXCEPT !.song_list = on_up(@)]
    [] request.kind = "Down" -> [app EXCEPT !.song_list = on_down(@)]
    [] request.kind = "Enter" -> [app EXCEPT !.tmp_show_popup = on_enter(@)]
    [] request.kind = "ShowSearch" -> [app EXCEPT !.state = show_search(@)]
    [] request.kind = "SearchInput" -> [app EXCEPT !.state = search_input(@, request.ch)]
    [] request.kind = "GoBack" -> [app EXCEPT !.state = go_back(@)]
    [] OTHER -> app

\* A catch-all arm that leaves the loop.
after_request_known_only(request) ==
  IF request.kind \in {"Quit", "Other"} THEN "returned" ELSE "draw"

\* A match without the Quit arm: Quit falls through like any other request.
after_request_ignores_quit(request) == "draw"

\* Where App::run goes after the match arm of a received request.
after_request(request) == IF request.kind = "Quit" THEN "returned" ELSE "draw"

\* An Err arm that closes the popup.
on_recv_err_hides_popup(a) == [a EXCEPT !.tmp_show_popup = FALSE]

\* The Err arm of rx.recv(): it logs the error and touches no App field.
on_recv_err(a) == a

\* An Err arm that leaves the loop.
after_recv_err_returns == "returned"

\* Where App::run goes after the Err arm of rx.recv().
after_recv_err == "draw"

\* A receive that hands out the newest message.
chan_front_newest(q) == q[Len(q)]

\* mpsc channel: send appends, recv takes the oldest message.
chan_send(q, m) == Append(q, m)
chan_front(q) == Head(q)
chan_rest(q) == Tail(q)

\* get_ui, popup branch: the two unwraps succeed iff an item is selected.
popup_song(sl) == IF sl.selected = None THEN None ELSE get(sl.items, sl.selected[1])

\* get_ui: does the frame closure run to its end?
get_ui_completes(popup, sl) == popup => unwrap_ok(popup_song(sl))

\* get_ui: the PlayerRequest the frame sends.
get_ui_request(popup, sl) ==
  IF popup THEN Start(popup_song(sl)[1].path) ELSE Stop

\* get_ui that forgets the current song when it sends Stop.
get_ui_state_clears(popup, sl, st) ==
  IF popup THEN [st EXCEPT !.curr_song = popup_song(sl)]
  ELSE [st EXCEPT !.curr_song = None]

\* get_ui: AppState after the frame.
get_ui_state(popup, sl, st) ==
  IF popup THEN [st EXCEPT !.curr_song = popup_song(sl)] ELSE st

app == [state |-> state, song_list |-> song_list, tmp_show_popup |-> tmp_show_popup]

(* ---- initial state: App::with_songs, fresh AppState, open channels ---- *)
Init ==
  /\ state = [searching |-> FALSE, search_term |-> <<>>, curr_song |-> None]
  /\ song_list \in { with_items(c) : c \in Catalogs }
  /\ tmp_show_popup = FALSE
  /\ rx = <<>>
  /\ tx_alive = TRUE
  /\ player_tx = <<>>
  /\ pc = "start"
  /\ sent = <<>>
  /\ applied = <<>>
  /\ recv_errs = 0
  /\ returns = 0
  /\ lock = "free"

\* The receiver lives as long as App::run has neither returned nor unwound.
rx_alive == pc \notin {"returned", "panicked"}

(* ---- input producer ---- *)
Send ==
  /\ tx_alive
  /\ rx_alive
  /\ Len(sent) < MaxRequests
  /\ \E r \in UIRequests :
       /\ rx' = chan_send(rx, r)
       /\ sent' = Append(sent, r)
  /\ UNCHANGED <<tx_alive, loop_vars, lock>>

Disconnect ==
  /\ tx_alive
  /\ tx_alive' = FALSE
  /\ UNCHANGED <<rx, sent, loop_vars, lock>>

(* ---- App::run ---- *)
Startup ==
  /\ pc = "start"
  /\ song_list' = run_startup(song_list)
  /\ pc' = "draw"
  /\ UNCHANGED <<state, tmp_show_popup, rx, tx_alive, player_tx, sent, applied,
                 recv_errs, returns, lock>>

\* terminal.draw(|f| self.get_ui(f, &player_tx)): a frame that runs to its end.
Draw ==
  /\ pc = "draw"
  /\ get_ui_completes(tmp_show_popup, song_list)
  /\ player_tx' = Append(player_tx, get_ui_request(tmp_show_popup, song_list))
  /\ state' = get_ui_state(tmp_show_popup, song_list, state)
  /\ pc' = "recv"
  /\ UNCHANGED <<song_list, tmp_show_popup, rx, tx_alive, sent, applied,
                 recv_errs, returns, lock>>

\* A frame whose unwrap of the selected song panics: the thread unwinds.
DrawPanic ==
  /\ pc = "draw"
  /\ ~get_ui_completes(tmp_show_popup, song_list)
  /\ pc' = "panicked"
  /\ UNCHANGED <<state, song_list, tmp_show_popup, rx, tx_alive, player_tx,
                 sent, applied, recv_errs, returns, lock>>

\* rx.recv() returns Ok(request); the match arm runs.
RecvOk ==
  /\ pc = "recv"
  /\ rx /= <<>>
  /\ LET request == chan_front(rx)
         after == dispatch(app, request)
     IN /\ rx' = chan_rest(rx)
        /\ applied' = Append(applied, request)
        /\ state' = after.state
        /\ song_list' = after.song_list
        /\ tmp_show_popup' = after.tmp_show_popup
        /\ pc' = after_request(request)
        /\ returns' = IF after_request(request) = "returned" THEN returns + 1 ELSE returns
  /\ UNCHANGED <<tx_alive, player_tx, sent, recv_errs, lock>>

\* rx.recv() returns Err: the channel is empty and the Sender is gone.
RecvErr ==
  /\ pc = "recv"
  /\ rx = <<>>
  /\ ~tx_alive
  /\ recv_errs < MaxRecvErrs
  /\ recv_errs' = recv_errs + 1
  /\ state' = on_recv_err(app).state
  /\ song_list' = on_recv_err(app).song_list
  /\ tmp_show_popup' = on_recv_err(app).tmp_show_popup
  /\ pc' = after_recv_err
  /\ returns' = IF after_recv_err = "returned" THEN returns + 1 ELSE returns
  /\ UNCHANGED <<rx, tx_alive, player_tx, sent, applied, lock>>

Next ==
  \/ Send
  \/ Disconnect
  \/ Startup
  \/ Draw
  \/ DrawPanic
  \/ RecvOk
  \/ RecvErr

Spec == Init /\ [][Next]_vars

(* ---- the same loop, one step per use of the AppState lock ---- *)
(* Every self.state.lock().unwrap() in run, go_back and get_ui is a          *)
(* temporary guard: it is taken and dropped inside one statement, or inside  *)
(* the condition of one if.  Another thread can take the lock between two    *)
(* such statements.                                                          *)

\* A guard that outlives the condition of its if (as the scrutinee of a match would).
guard_after_cond_kept(holder) == holder

\* The lock once the condition of an if has been evaluated: the guard
\* temporary is dropped at the end of the condition.
guard_after_cond(holder) == "free"

\* The lock once a statement has ended: its guard temporary is dropped.
guard_after_stmt(holder) == "free"

\* The request whose match arm is running.
request_in_arm == applied[Len(applied)]

\* What none of the lock-level steps of the loop touch.
producer_vars == <<rx, tx_alive, sent>>

\* A step of the loop that locks AppState: it runs when the lock is free,
\* waits while another thread holds it, and never returns when the loop's
\* own guard is still alive.
LockedStep(step) ==
  \/ /\ lock = "free"
     /\ step
  \/ /\ lock = "loop"
     /\ pc' = "self_deadlock"
     /\ UNCHANGED <<state, song_list, tmp_show_popup, player_tx, applied,
                    recv_errs, returns, lock, producer_vars>>

LSend ==
  /\ tx_alive
  /\ rx_alive
  /\ pc /= "self_deadlock"
  /\ Len(sent) < MaxLockRequests
  /\ \E r \in UIRequests :
       /\ rx' = chan_send(rx, r)
       /\ sent' = Append(sent, r)
  /\ UNCHANGED <<tx_alive, loop_vars, lock>>

\* get_ui, the now-playing bar: rendered from the locked AppState.
LBar ==
  /\ pc = "draw"
  /\ LockedStep(/\ pc' = "ui_popup"
                /\ lock' = guard_after_stmt("loop")
                /\ UNCHANGED <<state, song_list, tmp_show_popup, player_tx,
                               applied, recv_errs, returns, producer_vars>>)

\* get_ui, the popup branch up to the send, or the else branch.
LPopup ==
  /\ pc = "ui_popup"
  /\ IF get_ui_completes(tmp_show_popup, song_list)
     THEN /\ player_tx' = Append(player_tx, get_ui_request(tmp_show_popup, song_list))
          /\ pc' = IF tmp_show_popup THEN "ui_song" ELSE "ui_search"
     ELSE /\ pc' = "panicked"
          /\ UNCHANGED player_tx
  /\ UNCHANGED <<state, song_list, tmp_show_popup, applied, recv_errs, returns,
                 lock, producer_vars>>

\* get_ui, the write of curr_song.
LSong ==
  /\ pc = "ui_song"
  /\ LockedStep(/\ state' = get_ui_state(tmp_show_popup, song_list, state)
                /\ pc' = "ui_search"
                /\ lock' = guard_after_stmt("loop")
                /\ UNCHANGED <<song_list, tmp_show_popup, player_tx, applied,
                               recv_errs, returns, producer_vars>>)

\* get_ui, the test of searching.
LSearchTest ==
  /\ pc = "ui_search"
  /\ LockedStep(/\ pc' = IF state.searching THEN "ui_term" ELSE "recv"
                /\ lock' = guard_after_cond("loop")
                /\ UNCHANGED <<state, song_list, tmp_show_popup, player_tx,
                               applied, recv_errs, returns, producer_vars>>)

\* get_ui, the copy of search_term for the search box.
LSearchTerm ==
  /\ pc = "ui_term"
  /\ LockedStep(/\ pc' = "recv"
                /\ lock' = guard_after_stmt("loop")
                /\ UNCHANGED <<state, song_list, tmp_show_popup, player_tx,
                               applied, recv_errs, returns, producer_vars>>)

\* rx.recv() returns Ok(request): Quit returns, anything else enters its arm.
LRecv ==
  /\ pc = "recv"
  /\ rx /= <<>>
  /\ LET request == chan_front(rx)
     IN /\ rx' = chan_rest(rx)
        /\ applied' = Append(applied, request)
        /\ pc' = IF after_request(request) = "returned" THEN "returned" ELSE "arm"
        /\ returns' = IF after_request(request) = "returned" THEN returns + 1 ELSE returns
  /\ UNCHANGED <<state, song_list, tmp_show_popup, tx_alive, player_tx, sent,
                 recv_errs, lock>>

\* The arms that touch only the App: Up, Down, Enter and the catch-all.
LArmLocal ==
  /\ pc = "arm"
  /\ request_in_arm.kind \notin {"ShowSearch", "SearchInput", "GoBack"}
  /\ song_list' = dispatch(app, request_in_arm).song_list
  /\ tmp_show_popup' = dispatch(app, request_in_arm).tmp_show_popup
  /\ pc' = "draw"
  /\ UNCHANGED <<state, player_tx, applied, recv_errs, returns, lock, producer_vars>>

\* The ShowSearch and SearchInput arms: one locked statement each.
LArmState ==
  /\ pc = "arm"
  /\ request_in_arm.kind \in {"ShowSearch", "SearchInput"}
  /\ LockedStep(/\ state' = dispatch(app, request_in_arm).state
                /\ pc' = "draw"
                /\ lock' = guard_after_stmt("loop")
                /\ UNCHANGED <<song_list, tmp_show_popup, player_tx, applied,
                               recv_errs, returns, producer_vars>>)

\* go_back, the test of searching.
LGoBackTest ==
  /\ pc = "arm"
  /\ request_in_arm.kind = "GoBack"
  /\ LockedStep(/\ pc' = IF state.searching THEN "gb_searching" ELSE "draw"
                /\ lock' = guard_after_cond("loop")
                /\ UNCHANGED <<state, song_list, tmp_show_popup, player_tx,
                               applied, recv_errs, returns, producer_vars>>)

\* go_back, searching = false.
LGoBackSearching ==
  /\ pc = "gb_searching"
  /\ LockedStep(/\ state' = [state EXCEPT !.searching = FALSE]
                /\ pc' = "gb_term"
                /\ lock' = guard_after_stmt("loop")
                /\ UNCHANGED <<song_list, tmp_show_popup, player_tx, applied,
                               recv_errs, returns, producer_vars>>)

\* go_back, search_term.clear().
LGoBackTerm ==
  /\ pc = "gb_term"
  /\ LockedStep(/\ state' = [state EXCEPT !.search_term = <<>>]
                /\ pc' = "draw"
                /\ lock' = guard_after_stmt("loop")
                /\ UNCHANGED <<song_list, tmp_show_popup, player_tx, applied,
                               recv_errs, returns, producer_vars>>)

\* Another thread that shares the Arc<Mutex<AppState>> locks it, and unlocks it.
OtherLock ==
  /\ lock = "free"
  /\ lock' = "other"
  /\ UNCHANGED <<loop_vars, producer_vars>>

OtherUnlock ==
  /\ lock = "other"
  /\ lock' = "free"
  /\ UNCHANGED <<loop_vars, producer_vars>>

LockNext ==
  \/ LSend
  \/ Disconnect
  \/ Startup
  \/ LBar
  \/ LPopup
  \/ LSong
  \/ LSearchTest
  \/ LSearchTerm
  \/ LRecv
  \/ RecvErr
  \/ LArmLocal
  \/ LArmState
  \/ LGoBackTest
  \/ LGoBackSearching
  \/ LGoBackTerm
  \/ OtherLock
  \/ OtherUnlock

LockSpec == Init /\ [][LockNext]_vars

(* ======================= properties ======================= *)

\* A step in which App::run receives request r.
Applies(r) == applied' = Append(applied, r)

\* A step that ends a render pass, completed or not.
RenderPass == pc = "draw" /\ pc' /= "draw"

LastOf(q) == q[Len(q)]

\* C1: every render pass appends exactly one request to player_tx:
\* Start(path of the selected song) when tmp_show_popup is set at that pass,
\* Stop when it is not.
C1_EveryPassEmitsOne ==
  [][RenderPass =>
       /\ Len(player_tx') = Len(player_tx) + 1
       /\ SubSeq(player_tx', 1, Len(player_tx)) = player_tx
       /\ IF tmp_show_popup
          THEN /\ LastOf(player_tx').kind = "Start"
               /\ popup_song(song_list) /= None
               /\ LastOf(player_tx').path = popup_song(song_list)[1].path
          ELSE LastOf(player_tx') = Stop]_vars

\* Every render pass that finds the selection it needs appends exactly one
\* request to player_tx, Start(path of the selected song) or Stop.
CompletedPassEmitsOne ==
  [][(RenderPass /\ get_ui_completes(tmp_show_popup, song_list)) =>
       player_tx' = Append(player_tx,
                           IF tmp_show_popup
                           THEN Start(popup_song(song_list)[1].path)
                           ELSE Stop)]_vars

\* The scenario of spec section 8: [A, B], Down, Enter, Enter.
ScenarioReached ==
  /\ applied = <<Down, Enter, Enter>>
  /\ player_tx = <<Stop, Stop, Start("/b.mp3"), Stop>>
  /\ state.curr_song = Some(AllSongs[2])

\* C2: search_term is non-empty only when searching is true.
C2_TermOnlyWhenSearching == state.search_term /= <<>> => state.searching

\* C3: the loop ends only by receiving Quit; no render pass aborts it.
C3_EndsOnlyByQuit ==
  pc \in {"returned", "panicked"} =>
    /\ pc = "returned"
    /\ applied /= <<>>
    /\ LastOf(applied) = Quit

\* C4: receiving Quit makes App::run return, once; after the return there is
\* no render pass, no receive and no send on player_tx.
C4_QuitReturnsOnce ==
  [][/\ Applies(Quit) => (pc' = "returned" /\ returns = 0 /\ returns' = 1)
     /\ returns' /= returns => Applies(Quit)
     /\ pc = "returned" => UNCHANGED <<loop_vars, rx>>]_vars

C4_Witness == pc = "returned" /\ returns = 1 /\ rx /= <<>> /\ Len(player_tx) >= 2

C6_SelectionPresent ==
  (Len(song_list.items) > 0 /\ pc /= "start") =>
    /\ song_list.selected /= None
    /\ song_list.selected[1] \in 0..(Len(song_list.items) - 1)
    /\ pc /= "panicked"

C6_Witness ==
  /\ Len(song_list.items) >= 2
  /\ song_list.selected = Some(Len(song_list.items) - 1)
  /\ tmp_show_popup
  /\ pc = "recv"
  /\ \E i \in 1..Len(applied) : applied[i] = Up

\* The producer is gone and the channel is drained.
Drained == ~tx_alive /\ rx = <<>>

\* C7 (as claimed): once the producer is gone and the channel drained, the
\* loop re-renders after the failed receive and then stays blocked in
\* rx.recv(): no further render pass, no further request on player_tx.
C7_BlocksAfterDisconnect ==
  [][(Drained /\ pc = "recv" /\ recv_errs >= 1) => UNCHANGED <<pc, player_tx>>]_vars

\* C7 (amended): once the producer is gone and the channel drained, rx.recv()
\* does not block: each receive fails at once and leads to another render
\* pass, which sends another request on player_tx; the loop neither blocks
\* nor returns.
C7_SpinsAfterDisconnect ==
  /\ []((Drained /\ pc = "recv" /\ recv_errs < MaxRecvErrs) => ENABLED RecvErr)
  /\ [][(Drained /\ pc = "recv" /\ pc' /= pc) =>
          (pc' = "draw" /\ recv_errs' = recv_errs + 1)]_vars
  /\ [][(Drained /\ pc = "draw" /\ pc' = "recv") =>
          Len(player_tx') = Len(player_tx) + 1]_vars

C7_Witness ==
  /\ Drained
  /\ pc = "recv"
  /\ recv_errs >= 2
  /\ Len(player_tx) >= recv_errs + 1

\* C8: a failed receive does not end the loop and changes neither the
\* selection, nor tmp_show_popup, nor any AppState field; the loop goes on
\* to its next iteration.
C8_RecvErrKeepsState ==
  [][recv_errs' /= recv_errs =>
       /\ pc' = "draw"
       /\ returns' = returns
       /\ UNCHANGED <<state, song_list, tmp_show_popup>>]_vars

C8_Witness ==
  /\ recv_errs >= 1
  /\ pc = "draw"
  /\ tmp_show_popup
  /\ state.searching
  /\ state.search_term /= <<>>

\* applied[lo..hi] are all SearchInput requests.
KeysOnly(lo, hi) == \A j \in lo..hi : applied[j].kind = "SearchInput"

\* The characters of applied[lo..hi], in order.
CharsOf(lo, hi) == [j \in 1..(hi - lo + 1) |-> applied[lo + j - 1].ch]

\* C9: after ShowSearch, searching is true; after ShowSearch followed by
\* SearchInput requests only, search_term is the characters of those requests
\* in arrival order; after a GoBack that follows them, searching is false
\* and search_term is empty.
C9_SearchScenario ==
  \A i \in 1..Len(applied) :
    applied[i] = ShowSearch =>
      LET n == Len(applied) IN
      /\ KeysOnly(i + 1, n) =>
           (state.searching /\ state.search_term = CharsOf(i + 1, n))
      /\ (n > i /\ applied[n] = GoBack /\ KeysOnly(i + 1, n - 1)) =>
           (~state.searching /\ state.search_term = <<>>)

\* The same scenario when no SearchInput or ShowSearch was received before
\* the ShowSearch, so that search_term was empty when the search opened.
FreshSearchScenario ==
  \A i \in 1..Len(applied) :
    (/\ applied[i] = ShowSearch
     /\ \A j \in 1..(i - 1) : applied[j].kind \notin {"SearchInput", "ShowSearch"}) =>
      LET n == Len(applied) IN
      /\ KeysOnly(i + 1, n) =>
           (state.searching /\ state.search_term = CharsOf(i + 1, n))
      /\ (n > i /\ applied[n] = GoBack /\ KeysOnly(i + 1, n - 1)) =>
           (~state.searching /\ state.search_term = <<>>)

\* C10: a GoBack received while searching is false changes no field.
C10_BackNoopWhenNotSearching ==
  [][(Applies(GoBack) /\ ~state.searching) =>
       UNCHANGED <<state, song_list, tmp_show_popup, player_tx>>]_vars

C10_Witness ==
  /\ applied /= <<>>
  /\ LastOf(applied) = GoBack
  /\ ~state.searching
  /\ state.search_term /= <<>>
  /\ state.curr_song /= None
  /\ tmp_show_popup
\* n MoveDown requests in a row, as on_down applies them.
RECURSIVE DownTimes(_, _)
DownTimes(n, sl) == IF n = 0 THEN sl ELSE DownTimes(n - 1, on_down(sl))

\* The last n received requests are all r.
LastAre(n, r) ==
  /\ Len(applied) >= n
  /\ \A j \in (Len(applied) - n + 1)..Len(applied) : applied[j] = r

HasSelection == Len(song_list.items) > 0 /\ song_list.selected /= None

\* C11: on a non-empty list with a selected index, MoveDown applied
\* Len(items) times gives the same selection back, and MoveDown on the last
\* index selects index 0.
C11_DownIsCyclic ==
  HasSelection =>
    /\ DownTimes(Len(song_list.items), song_list) = song_list
    /\ song_list.selected[1] = Len(song_list.items) - 1 =>
         on_down(song_list).selected = Some(0)
    /\ song_list.selected[1] < Len(song_list.items) - 1 =>
         on_down(song_list).selected = Some(song_list.selected[1] + 1)

C11_Witness ==
  /\ Len(song_list.items) >= 2
  /\ LastAre(Len(song_list.items), Down)
  /\ song_list.selected = Some(0)
  /\ pc = "draw"

\* C12: from any selected index of a non-empty list, MoveUp then MoveDown
\* and MoveDown then MoveUp both give the original selection back.
C12_UpDownInverse ==
  HasSelection =>
    /\ on_down(on_up(song_list)) = song_list
    /\ on_up(on_down(song_list)) = song_list

C12_Witness ==
  /\ Len(song_list.items) >= 2
  /\ Len(applied) >= 2
  /\ applied[Len(applied) - 1] = Up
  /\ applied[Len(applied)] = Down
  /\ song_list.selected = Some(0)

\* C13: each Enter flips tmp_show_popup, and no step that is not the
\* receipt of an Enter changes it.
C13_EnterToggles ==
  [][/\ Applies(Enter) => tmp_show_popup' = ~tmp_show_popup
     /\ tmp_show_popup' /= tmp_show_popup => Applies(Enter)]_vars

C13_Witness ==
  /\ LastAre(2, Enter)
  /\ ~tmp_show_popup
  /\ Len(player_tx) >= 2
  /\ LastOf(player_tx).kind = "Start"
\* C15: at the first render pass of a loop started with a non-empty catalog
\* index 0 is selected and tmp_show_popup is false, and the first request
\* sent on player_tx is Stop.
C15_FirstPass ==
  Len(song_list.items) > 0 =>
    /\ (pc = "draw" /\ player_tx = <<>>) =>
         (song_list.selected = Some(0) /\ ~tmp_show_popup /\ applied = <<>>)
    /\ player_tx /= <<>> => player_tx[1] = Stop

C15_Witness ==
  /\ Len(song_list.items) >= 2
  /\ player_tx = <<Stop>>
  /\ pc = "recv"
  /\ applied = <<>>
  /\ Len(rx) >= 1

\* C16: receiving a request of a kind the match does not name changes
\* neither the selection, nor tmp_show_popup, nor any AppState field, and the
\* loop goes on to its next iteration.
C16_UnhandledKeepsState ==
  [][Applies(Other) =>
       /\ UNCHANGED <<state, song_list, tmp_show_popup, player_tx, returns>>
       /\ pc' = "draw"]_vars

C16_Witness ==
  /\ applied /= <<>>
  /\ LastOf(applied) = Other
  /\ pc = "recv"
  /\ tmp_show_popup
  /\ state.searching
  /\ state.curr_song /= None

\* Some Start request has been sent on player_tx.
StartSent == \E i \in 1..Len(player_tx) : player_tx[i].kind = "Start"

\* C18: curr_song changes only in a render pass with the popup visible;
\* it is absent until the first such pass, after such a pass it is the item
\* selected at that pass, whose path the pass sent in Start, and it is
\* never cleared.
C18_CurrSongByPopupPass ==
  /\ [](state.curr_song = None <=> ~StartSent)
  /\ [][/\ state.curr_song' /= state.curr_song => (RenderPass /\ tmp_show_popup)
        /\ (RenderPass /\ tmp_show_popup /\ pc' = "recv") =>
             /\ state.curr_song' = popup_song(song_list)
             /\ state.curr_song' /= None
             /\ LastOf(player_tx') = Start(state.curr_song'[1].path)
        /\ state.curr_song /= None => state.curr_song' /= None]_vars

C18_Witness ==
  /\ state.curr_song = Some(AllSongs[1])
  /\ song_list.selected = Some(1)
  /\ ~tmp_show_popup
  /\ player_tx /= <<>>
  /\ LastOf(player_tx) = Stop
  /\ pc = "recv"

\* C19: Up and Down change nothing but the selected index; ShowSearch,
\* SearchInput and GoBack change nothing but searching and search_term; no
\* step changes the items.
C19_DispatchFrames ==
  [][/\ (Applies(Up) \/ Applies(Down)) =>
          UNCHANGED <<state, tmp_show_popup>>
     /\ (Applies(ShowSearch) \/ Applies(GoBack) \/ \E c \in Chars : Applies(SearchInput(c))) =>
          /\ UNCHANGED <<song_list, tmp_show_popup>>
          /\ state'.curr_song = state.curr_song
     /\ song_list'.items = song_list.items]_vars

C19_Witness ==
  /\ Len(applied) >= 2
  /\ LastOf(applied) = ShowSearch
  /\ applied[Len(applied) - 1] = Down
  /\ state.curr_song /= None
  /\ song_list.selected = Some(0)
  /\ tmp_show_popup
\* Back is between its test of searching and its last write.
InsideGoBack == pc \in {"gb_searching", "gb_term"}

\* C14: Back is atomic for the other holders of the state lock: from its
\* test of searching to the clearing of search_term no other thread holds
\* the lock, so none sees searching false with the search_term that an
\* unfinished Back has yet to clear.
C14_BackAtomic ==
  /\ InsideGoBack => lock /= "other"
  /\ ~(lock = "other" /\ pc = "gb_term" /\ ~state.searching /\ state.search_term /= <<>>)

\* C17: the loop never locks AppState while its own guard is alive, and
\* does not hold the lock while it waits in rx.recv(); another thread that
\* asks for the lock while the loop waits there gets it.
C17_NoSelfDeadlock ==
  /\ pc /= "self_deadlock"
  /\ pc = "recv" => lock /= "loop"
  /\ (pc = "recv" /\ lock = "free") => ENABLED OtherLock

C17_Witness ==
  /\ pc = "recv"
  /\ lock = "other"
  /\ rx = <<>>
  /\ applied /= <<>>
  /\ Len(applied) >= 2
  /\ applied[Len(applied) - 1] = ShowSearch
  /\ LastOf(applied) = GoBack
  /\ ~state.searching
====
